---- MODULE Spec2Model ----
(***************************************************************************)
(* A model of input.py: the pdb reader.  A run of the script checks its    *)
(* argument, validates the file (valid_pdb), splits it into frames at the  *)
(* END lines (read_pdb) and builds each frame line by line                 *)
(* (Frame.__init__), growing the frame's molecule list on demand.          *)
(*                                                                         *)
(* A line is modelled by what the code reads of it after                   *)
(*     [x for x in line.strip().split(' ') if x != '']                     *)
(* that is by its token list: typ is the first token, n the number of      *)
(* tokens, mol the integer written in the fifth token and numok whether    *)
(* int()/float() accept the numeric tokens.  A blank line has n = 0.       *)
(*                                                                         *)
(* Objects live in three heaps, each a sequence indexed by reference:      *)
(*   Lst   the python lists used as a molecule's atoms; reference           *)
(*         DefaultAtoms is the list literal of Molecule.__init__'s default *)
(*         argument, created once when the function is defined;            *)
(*   Mol   the Molecule objects, [id, atoms] with atoms a reference to Lst;*)
(*   Atom  the AtomBond objects, [molecule, src] with molecule a reference *)
(*         to Mol and src the number of the file line the atom was parsed  *)
(*         from (it stands for the record's own fields).                   *)
(***************************************************************************)
EXTENDS Integers, Sequences, FiniteSets

\* Longest file built from every kind of line.
MaxLines == 4
\* Longest run of well-formed lines (atom records and END) after a header.
MaxAtomLines == 4
\* Largest molecule id written in an atom record.
MaxMolId == 2
\* Molecule ids go down to -MaxNeg.
MaxNeg == 2

VARIABLES
    argv,       \* TRUE iff the file argument is given (len(sys.argv) >= 2)
    file,       \* pdb.readlines(): the lines of the file
    pc,         \* position of the run
    vres,       \* outcome of valid_pdb: "none", "True", "False", "IndexError"
    i,          \* read_pdb: index of the line being enumerated (0-based)
    atom_strs,  \* read_pdb: the buffer `atoms` of lines since the last END
    frame_no,   \* read_pdb: frame_no
    frames,     \* read_pdb: frames
    f,          \* the Frame under construction (self in Frame.__init__)
    fi,         \* Frame.__init__: number of lines of atom_strs consumed (i)
    Lst,        \* heap of atom lists
    Mol,        \* heap of Molecule objects
    Atom,       \* heap of AtomBond objects
    ret,        \* what read_pdb returned: "none", "True", "False"
    err,        \* how the run failed: "", "Usage", "IndexError", "ValueError", "NonAtom"
    exit_code   \* exit status of the process, -1 while it runs

vars == <<argv, file, pc, vres, i, atom_strs, frame_no, frames, f, fi,
          Lst, Mol, Atom, ret, err, exit_code>>

----------------------------------------------------------------------------
(* Lines *)

MolIds == (0 - MaxNeg)..MaxMolId

Blank     == [typ |-> "",       n |-> 0,  mol |-> 0, numok |-> FALSE]
End       == [typ |-> "END",    n |-> 1,  mol |-> 0, numok |-> FALSE]
Remark    == [typ |-> "REMARK", n |-> 2,  mol |-> 0, numok |-> FALSE]
AtomShort == [typ |-> "ATOM",   n |-> 10, mol |-> 1, numok |-> TRUE]
AtomBad   == [typ |-> "ATOM",   n |-> 11, mol |-> 0, numok |-> FALSE]
Hetatm    == [typ |-> "HETATM", n |-> 11, mol |-> 1, numok |-> TRUE]
HetatmBad == [typ |-> "HETATM", n |-> 11, mol |-> 0, numok |-> FALSE]
AtomLine(m) == [typ |-> "ATOM", n |-> 11, mol |-> m, numok |-> TRUE]

AnyKinds  == {Blank, End, Remark, AtomShort, AtomBad, Hetatm, HetatmBad, AtomLine(1)}
WellKinds == {End} \cup {AtomLine(m) : m \in MolIds}

SeqsUpTo(S, n) == UNION {[1..k -> S] : k \in 0..n}

Files == SeqsUpTo(AnyKinds, MaxLines)
           \cup {<<Remark>> \o t : t \in SeqsUpTo(WellKinds, MaxAtomLines)}

----------------------------------------------------------------------------
(* Python lists *)

\* s[idx]: the 1-based position read, 0 when python raises IndexError.
PyIndex(s, idx) ==
    IF idx >= 0
    THEN IF idx < Len(s) THEN idx + 1 ELSE 0
    ELSE IF 0 - idx <= Len(s) THEN Len(s) + idx + 1 ELSE 0

\* s.insert(idx, x)
PyInsert(s, idx, x) ==
    LET j == IF idx < 0 THEN (IF Len(s) + idx < 0 THEN 0 ELSE Len(s) + idx)
             ELSE (IF idx > Len(s) THEN Len(s) ELSE idx)
    IN  SubSeq(s, 1, j) \o <<x>> \o SubSeq(s, j + 1, Len(s))

----------------------------------------------------------------------------
(* valid_pdb *)

RECURSIVE valid_pdb_from(_, _)
valid_pdb_from(lines, j) ==
    IF j > Len(lines) THEN "False"
    ELSE LET parts == lines[j] IN
         IF parts.n = 0 THEN "IndexError"
         ELSE IF parts.typ = "ATOM"
              THEN (IF parts.n = 11 THEN "True" ELSE "False")
              ELSE valid_pdb_from(lines, j + 1)

valid_pdb(lines) == valid_pdb_from(lines, 1)

\* line == "END" after strip()
IsEnd(line) == line.typ = "END" /\ line.n = 1

----------------------------------------------------------------------------
DefaultAtoms == 1
NoFrame == [num |-> 0 - 1, atoms |-> <<>>, molecules |-> <<>>]

Init ==
    /\ \/ argv = TRUE /\ file \in Files
       \/ argv = FALSE /\ file = <<>>
    /\ pc = "main"
    /\ vres = "none"
    /\ i = 0
    /\ atom_strs = <<>>
    /\ frame_no = 0
    /\ frames = <<>>
    /\ f = NoFrame
    /\ fi = 0
    /\ Lst = << <<>> >>
    /\ Mol = <<>>
    /\ Atom = <<>>
    /\ ret = "none"
    /\ err = ""
    /\ exit_code = 0 - 1

Exit(code, e) ==
    /\ pc' = "exit"
    /\ exit_code' = code
    /\ err' = e

\* __main__: the argument check.
MainUsage ==
    /\ pc = "main"
    /\ ~argv
    /\ Exit(1, "Usage")
    /\ UNCHANGED <<argv, file, vres, i, atom_strs, frame_no, frames, f, fi,
                   Lst, Mol, Atom, ret>>

MainCall ==
    /\ pc = "main"
    /\ argv
    /\ pc' = "read_pdb"
    /\ UNCHANGED <<argv, file, vres, i, atom_strs, frame_no, frames, f, fi,
                   Lst, Mol, Atom, ret, err, exit_code>>

\* read_pdb: valid_pdb raises on a blank line; nothing catches it.
ReadPdbRaise ==
    /\ pc = "read_pdb"
    /\ valid_pdb(file) = "IndexError"
    /\ vres' = "IndexError"
    /\ Exit(1, "IndexError")
    /\ UNCHANGED <<argv, file, i, atom_strs, frame_no, frames, f, fi,
                   Lst, Mol, Atom, ret>>

\* The early return is missing: the invalid file is read all the same.
ReadPdbInvalid_continue ==
    /\ pc = "read_pdb"
    /\ valid_pdb(file) = "False"
    /\ vres' = "False"
    /\ pc' = "lines"
    /\ UNCHANGED <<argv, file, i, atom_strs, frame_no, frames, f, fi,
                   Lst, Mol, Atom, ret, err, exit_code>>

\* read_pdb: not valid_pdb(filename): return False, [].
ReadPdbInvalid ==
    /\ pc = "read_pdb"
    /\ valid_pdb(file) = "False"
    /\ vres' = "False"
    /\ ret' = "False"
    /\ pc' = "returned"
    /\ UNCHANGED <<argv, file, i, atom_strs, frame_no, frames, f, fi,
                   Lst, Mol, Atom, err, exit_code>>

\* read_pdb: the file is valid; frames = [], atoms = [], frame_no = 0.
ReadPdbValid ==
    /\ pc = "read_pdb"
    /\ valid_pdb(file) = "True"
    /\ vres' = "True"
    /\ frames' = <<>>
    /\ atom_strs' = <<>>
    /\ frame_no' = 0
    /\ i' = 0
    /\ pc' = "lines"
    /\ UNCHANGED <<argv, file, f, fi, Lst, Mol, Atom, ret, err, exit_code>>

\* The first line is treated like every other line.
Skipped_never(idx) == FALSE

\* read_pdb: `if i == 0: continue`
Skipped(idx) == idx = 0

\* read_pdb: i == 0: skip first line.
SkipFirst ==
    /\ pc = "lines"
    /\ i < Len(file)
    /\ Skipped(i)
    /\ i' = i + 1
    /\ UNCHANGED <<argv, file, pc, vres, atom_strs, frame_no, frames, f, fi,
                   Lst, Mol, Atom, ret, err, exit_code>>

\* read_pdb: atoms.append(line)
Accumulate ==
    /\ pc = "lines"
    /\ i < Len(file)
    /\ ~Skipped(i)
    /\ ~IsEnd(file[i + 1])
    /\ atom_strs' = Append(atom_strs, file[i + 1])
    /\ i' = i + 1
    /\ UNCHANGED <<argv, file, pc, vres, frame_no, frames, f, fi,
                   Lst, Mol, Atom, ret, err, exit_code>>

\* Molecule(0): the atoms argument is left out, so the object takes the
\* default argument's list.
Molecule0 == [id |-> 0, atoms |-> DefaultAtoms]

\* read_pdb meets END and calls Frame(frame_no, atoms); Frame.__init__ up
\* to its loop: self.atoms = [], self.molecules = [Molecule(0)].
FrameInit ==
    /\ pc = "lines"
    /\ i < Len(file)
    /\ ~Skipped(i)
    /\ IsEnd(file[i + 1])
    /\ Mol' = Append(Mol, Molecule0)
    /\ f' = [num |-> frame_no, atoms |-> <<>>, molecules |-> <<Len(Mol) + 1>>]
    /\ fi' = 0
    /\ pc' = "Frame"
    /\ UNCHANGED <<argv, file, vres, i, atom_strs, frame_no, frames,
                   Lst, Atom, ret, err, exit_code>>

\* The file line atom_strs[k] was read from.
SrcLine(k) == i - Len(atom_strs) + k

\* Frame.__init__: the unpacking into 11 names, or int()/float(), raises
\* ValueError.
FrameValueError ==
    /\ pc = "Frame"
    /\ fi < Len(atom_strs)
    /\ LET a == atom_strs[fi + 1] IN a.n # 11 \/ ~a.numok
    /\ Exit(1, "ValueError")
    /\ UNCHANGED <<argv, file, vres, i, atom_strs, frame_no, frames, f, fi,
                   Lst, Mol, Atom, ret>>

\* exit() without a status: the process ends with status 0.
FrameNonAtom_exit0 ==
    /\ pc = "Frame"
    /\ fi < Len(atom_strs)
    /\ LET a == atom_strs[fi + 1] IN a.n = 11 /\ a.numok /\ a.typ # "ATOM"
    /\ Exit(0, "NonAtom")
    /\ UNCHANGED <<argv, file, vres, i, atom_strs, frame_no, frames, f, fi,
                   Lst, Mol, Atom, ret>>

\* Frame.__init__: typ != 'ATOM': print the row and exit(1).
FrameNonAtom ==
    /\ pc = "Frame"
    /\ fi < Len(atom_strs)
    /\ LET a == atom_strs[fi + 1] IN a.n = 11 /\ a.numok /\ a.typ # "ATOM"
    /\ Exit(1, "NonAtom")
    /\ UNCHANGED <<argv, file, vres, i, atom_strs, frame_no, frames, f, fi,
                   Lst, Mol, Atom, ret>>

\* The 1-based id of the file is turned into a 0-based position.
Lookup_base1(molecules, mol_id) == PyIndex(molecules, mol_id - 1)

\* self.molecules[mol_id]: the position read, 0 on IndexError.
Lookup(molecules, mol_id) == PyIndex(molecules, mol_id)

\* The atom's back-reference is set but the append is left out.
HitAppend_none(m, at) == Lst

\* self.molecules[mol_id].atoms.append(at), m being self.molecules[mol_id]
HitAppend(m, at) == [Lst EXCEPT ![Mol[m].atoms] = Append(@, at)]

\* Off by two: insert(mol_id-1, mol).
MissInsert_before(molecules, mol_id, mol) == PyInsert(molecules, mol_id - 1, mol)

\* self.molecules.insert(mol_id+1, mol)
MissInsert(molecules, mol_id, mol) == PyInsert(molecules, mol_id + 1, mol)

\* The position in the list is taken for the id: Molecule(mol_id+1, []).
NewMolecule_pos(mol_id, l) == [id |-> mol_id + 1, atoms |-> l]

\* Molecule(mol_id, []), l being the new list
NewMolecule(mol_id, l) == [id |-> mol_id, atoms |-> l]

\* Frame.__init__: self.molecules[mol_id] exists: the atom joins it.
AssignHit ==
    /\ pc = "Frame"
    /\ fi < Len(atom_strs)
    /\ LET a == atom_strs[fi + 1]
           at == Len(Atom) + 1
           p == Lookup(f.molecules, a.mol)
       IN  /\ a.n = 11 /\ a.numok /\ a.typ = "ATOM"
           /\ p # 0
           /\ LET m == f.molecules[p] IN
              /\ Atom' = Append(Atom, [molecule |-> m, src |-> SrcLine(fi + 1)])
              /\ f' = [f EXCEPT !.atoms = Append(@, at)]
              /\ Lst' = HitAppend(m, at)
    /\ fi' = fi + 1
    /\ UNCHANGED <<argv, file, pc, vres, i, atom_strs, frame_no, frames,
                   Mol, ret, err, exit_code>>

\* Frame.__init__: IndexError: Molecule(mol_id, []) is created, takes the
\* atom and is inserted at mol_id + 1.
AssignMiss ==
    /\ pc = "Frame"
    /\ fi < Len(atom_strs)
    /\ LET a == atom_strs[fi + 1]
           at == Len(Atom) + 1
           mol == Len(Mol) + 1
           l == Len(Lst) + 1
       IN  /\ a.n = 11 /\ a.numok /\ a.typ = "ATOM"
           /\ Lookup(f.molecules, a.mol) = 0
           /\ Atom' = Append(Atom, [molecule |-> mol, src |-> SrcLine(fi + 1)])
           /\ Lst' = Append(Lst, <<at>>)
           /\ Mol' = Append(Mol, NewMolecule(a.mol, l))
           /\ f' = [f EXCEPT !.atoms = Append(@, at),
                             !.molecules = MissInsert(@, a.mol, mol)]
    /\ fi' = fi + 1
    /\ UNCHANGED <<argv, file, pc, vres, i, atom_strs, frame_no, frames,
                   ret, err, exit_code>>

\* frame_no += 1 is left out.
FrameDone_nocount ==
    /\ pc = "Frame"
    /\ fi = Len(atom_strs)
    /\ frames' = Append(frames, f)
    /\ atom_strs' = <<>>
    /\ f' = NoFrame
    /\ fi' = 0
    /\ i' = i + 1
    /\ pc' = "lines"
    /\ UNCHANGED <<argv, file, vres, frame_no, Lst, Mol, Atom, ret, err, exit_code>>

\* atoms = [] is left out: the buffer is not cleared.
FrameDone_keepbuffer ==
    /\ pc = "Frame"
    /\ fi = Len(atom_strs)
    /\ frames' = Append(frames, f)
    /\ frame_no' = frame_no + 1
    /\ f' = NoFrame
    /\ fi' = 0
    /\ i' = i + 1
    /\ pc' = "lines"
    /\ UNCHANGED <<argv, file, vres, atom_strs, Lst, Mol, Atom, ret, err, exit_code>>

\* Frame.__init__ returns; read_pdb: frames.append(f), atoms = [],
\* frame_no += 1.
FrameDone ==
    /\ pc = "Frame"
    /\ fi = Len(atom_strs)
    /\ frames' = Append(frames, f)
    /\ atom_strs' = <<>>
    /\ frame_no' = frame_no + 1
    /\ f' = NoFrame
    /\ fi' = 0
    /\ i' = i + 1
    /\ pc' = "lines"
    /\ UNCHANGED <<argv, file, vres, Lst, Mol, Atom, ret, err, exit_code>>

\* The buffer left at the end of the file is built into one more frame.
ReadPdbReturn_flush ==
    /\ pc = "lines"
    /\ i = Len(file)
    /\ IF atom_strs = <<>>
       THEN /\ ret' = "True"
            /\ pc' = "returned"
            /\ UNCHANGED <<f, fi, Mol>>
       ELSE /\ Mol' = Append(Mol, [id |-> 0, atoms |-> DefaultAtoms])
            /\ f' = [num |-> frame_no, atoms |-> <<>>, molecules |-> <<Len(Mol) + 1>>]
            /\ fi' = 0
            /\ pc' = "Frame"
            /\ UNCHANGED ret
    /\ UNCHANGED <<argv, file, vres, i, atom_strs, frame_no, frames,
                   Lst, Atom, err, exit_code>>

\* read_pdb: the loop is over: return True, frames.
ReadPdbReturn ==
    /\ pc = "lines"
    /\ i = Len(file)
    /\ ret' = "True"
    /\ pc' = "returned"
    /\ UNCHANGED <<argv, file, vres, i, atom_strs, frame_no, frames, f, fi,
                   Lst, Mol, Atom, err, exit_code>>

\* __main__ after read_pdb: frames[0], frames[0].molecules[1] and
\* frames[0].atoms[0] are printed when valid, nothing otherwise.
MainPrint ==
    /\ pc = "returned"
    /\ IF ret = "True" /\ (\/ Len(frames) = 0
                           \/ Len(frames[1].molecules) < 2
                           \/ Len(frames[1].atoms) = 0)
       THEN Exit(1, "IndexError")
       ELSE Exit(0, "")
    /\ UNCHANGED <<argv, file, vres, i, atom_strs, frame_no, frames, f, fi,
                   Lst, Mol, Atom, ret>>

Next ==
    \/ MainUsage
    \/ MainCall
    \/ ReadPdbRaise
    \/ ReadPdbInvalid
    \/ ReadPdbValid
    \/ SkipFirst
    \/ Accumulate
    \/ FrameInit
    \/ FrameValueError
    \/ FrameNonAtom
    \/ AssignHit
    \/ AssignMiss
    \/ FrameDone
    \/ ReadPdbReturn
    \/ MainPrint

Spec == Init /\ [][Next]_vars

----------------------------------------------------------------------------
TypeOK ==
    /\ argv \in BOOLEAN
    /\ pc \in {"main", "read_pdb", "lines", "Frame", "returned", "exit"}
    /\ vres \in {"none", "True", "False", "IndexError"}
    /\ ret \in {"none", "True", "False"}
    /\ err \in {"", "Usage", "IndexError", "ValueError", "NonAtom"}
    /\ exit_code \in {0 - 1, 0, 1}
    /\ i \in 0..Len(file)
    /\ fi \in 0..Len(atom_strs)
    /\ \A m \in DOMAIN Mol : Mol[m].atoms \in DOMAIN Lst
    /\ \A a \in DOMAIN Atom : Atom[a].molecule \in DOMAIN Mol

----------------------------------------------------------------------------
(* Vocabulary of the properties *)

\* The molecule ids written in the records of a frame's atoms, in parse order.
FrameIds(fr) == [k \in 1..Len(fr.atoms) |-> file[Atom[fr.atoms[k]].src].mol]

\* The distinct values of s in the order of their first appearance.
RECURSIVE FirstSeen(_)
FirstSeen(s) ==
    IF s = <<>> THEN <<>>
    ELSE LET r == FirstSeen(SubSeq(s, 1, Len(s) - 1))
             x == s[Len(s)]
         IN  IF \E k \in 1..Len(r) : r[k] = x THEN r ELSE Append(r, x)

\* The ids of the frame are 1, 2, ..., k in first-appearance order.
DenseFrom1(fr) == LET r == FirstSeen(FrameIds(fr)) IN \A k \in 1..Len(r) : r[k] = k

\* Number of occurrences of x in s.
Count(s, x) == Cardinality({k \in 1..Len(s) : s[k] = x})

\* The frames built so far, the one under construction included.
Built == {frames[j] : j \in 1..Len(frames)}
AllFrames == Built \cup (IF pc = "Frame" THEN {f} ELSE {})

\* Number of END lines from line `from` (1-based) on.
EndCount(from) == Cardinality({j \in from..Len(file) : IsEnd(file[j])})

\* The lines whose first token is ATOM, and whether the first of them has 11 tokens.
AtomIdx == {j \in 1..Len(file) : file[j].n > 0 /\ file[j].typ = "ATOM"}
FirstAtomOk ==
    /\ AtomIdx # {}
    /\ file[CHOOSE j \in AtomIdx : \A k \in AtomIdx : j <= k].n = 11

\* Line j lies in a buffer that an END terminates (line 1 is in none).
InBuffer(j) ==
    /\ j \in 2..Len(file)
    /\ ~IsEnd(file[j])
    /\ \E e \in (j + 1)..Len(file) : IsEnd(file[e])

\* The first token of the line exists and is not ATOM.
NonAtom(line) == line.n > 0 /\ line.typ # "ATOM"

\* Frame.__init__ stopped on a line whose marker is not ATOM.
NonAtomMet ==
    /\ pc = "exit"
    /\ err \in {"NonAtom", "ValueError"}
    /\ fi < Len(atom_strs)
    /\ NonAtom(atom_strs[fi + 1])

\* What a caller can see of the j-th frame: the frame and, for each of its
\* molecules, the id and the content of the atom list.
FrameView(j) ==
    [frame |-> frames[j],
     mols  |-> [p \in 1..Len(frames[j].molecules) |->
                  LET m == Mol[frames[j].molecules[p]]
                  IN  [id |-> m.id, atoms |-> Lst[m.atoms]]]]

----------------------------------------------------------------------------
(* Properties *)

\* C1: a finished frame whose record molecule ids are 1, 2, ..., k in
\* first-appearance order has k + 1 molecules, the one at position j having
\* id j for j in 0..k.
C1_DenseIdsIndexed ==
    \A fr \in Built :
        DenseFrom1(fr) =>
            LET k == Len(FirstSeen(FrameIds(fr))) IN
            /\ Len(fr.molecules) = k + 1
            /\ \A j \in 0..k : Mol[fr.molecules[j + 1]].id = j

\* A finished frame with ids 1, 2 and then a repeat of 1.
C1_Witness ==
    \E fr \in Built : FrameIds(fr) = <<1, 2, 1>> /\ Len(fr.molecules) = 3

\* C2: in every frame read_pdb returns, every atom has its molecule set and
\* that molecule's atom list contains the atom exactly once, whatever the ids.
C2_AtomInItsMolecule ==
    \A fr \in Built : \A k \in 1..Len(fr.atoms) :
        LET a == fr.atoms[k] IN
        /\ Atom[a].molecule \in DOMAIN Mol
        /\ Count(Lst[Mol[Atom[a].molecule].atoms], a) = 1

\* read_pdb returned two frames, the second with an atom of id 0 and an atom
\* of a negative id.
C2_Witness ==
    /\ ret = "True"
    /\ Len(frames) = 2
    /\ \E k1, k2 \in 1..Len(frames[2].atoms) :
          FrameIds(frames[2])[k1] = 0 /\ FrameIds(frames[2])[k2] < 0

\* C3 as stated: read_pdb returns as many frames as the file has END lines.
C3_FramesEqualAllEnds ==
    ret = "True" => Len(frames) = EndCount(1)

\* C3 as amended: read_pdb returns as many frames as there are END lines
\* after line 1; lines after the last END add no frame.
C3_FramesEqualEndsAfterFirst ==
    ret = "True" => Len(frames) = EndCount(2)

\* read_pdb returned a frame from a file whose line 1 is END and whose last
\* line is not.
C3_Witness ==
    /\ ret = "True"
    /\ Len(frames) >= 1
    /\ IsEnd(file[1])
    /\ ~IsEnd(file[Len(file)])

\* C4: in every frame, finished or after any prefix of its assign steps,
\* position 0 of the molecule sequence holds the molecule with id 0.
C4_SentinelAtZero ==
    \A fr \in AllFrames :
        /\ Len(fr.molecules) >= 1
        /\ Mol[fr.molecules[1]].id = 0

\* C5: valid_pdb returns True exactly when the first line whose first token
\* is ATOM has exactly 11 tokens.
C5_FirstAtomDecides ==
    vres # "none" => (vres = "True" <=> FirstAtomOk)

\* C6: on a file without a line whose first token is ATOM, valid_pdb returns
\* False.
C6_NoAtomReturnsFalse ==
    (vres # "none" /\ AtomIdx = {}) => vres = "False"

\* C7: when an END-terminated buffer of a validated file holds a line whose
\* first token is not ATOM, the run ends with that row reported by exit(1)
\* and read_pdb returns nothing.
C7_NonAtomReported ==
    (pc = "exit" /\ vres = "True" /\ \E j \in 1..Len(file) : InBuffer(j) /\ NonAtom(file[j]))
        => (err = "NonAtom" /\ ret = "none")

\* C8: when valid_pdb returns False, read_pdb returns (False, []): no frame,
\* molecule or atom is constructed and the run does not end in an error.
C8_InvalidReturnsEmpty ==
    vres = "False" =>
        /\ pc \in {"returned", "exit"}
        /\ ret = "False"
        /\ frames = <<>> /\ f = NoFrame
        /\ Mol = <<>> /\ Atom = <<>>
        /\ err = ""
        /\ exit_code # 1

\* read_pdb returned False on a file with a non-ATOM row in an END-terminated
\* buffer.
C8_Witness ==
    /\ pc = "returned"
    /\ ret = "False"
    /\ \E j \in 1..Len(file) : InBuffer(j) /\ NonAtom(file[j])

\* C9 as stated: the run ends with status 1 when the argument is missing, when
\* the file fails validation and when a non-ATOM marker is met in a frame.
C9_ExitOneInThreeCases ==
    (pc = "exit" /\ (~argv \/ vres = "False" \/ NonAtomMet)) => exit_code = 1

\* C9 as amended: status 1 when the argument is missing or a non-ATOM marker
\* is met in a frame; status 0 when valid_pdb returns False.
C9_ExitCodes ==
    pc = "exit" =>
        /\ (~argv \/ NonAtomMet) => exit_code = 1
        /\ vres = "False" => exit_code = 0

\* The run of an invalid file has ended.
C9_Witness ==
    pc = "exit" /\ vres = "False" /\ exit_code = 0

\* C10: building a later frame leaves every frame already built unchanged:
\* its atoms, its molecules and the atom list of each of its molecules.
C10_BuiltFramesFrozen ==
    [][\A j \in 1..Len(frames) : FrameView(j)' = FrameView(j)]_vars

\* A line that Frame.__init__ turns into an atom.
GoodAtom(line) == line.n = 11 /\ line.numok /\ line.typ = "ATOM"

\* Line j comes after the last END (line 1 is skipped and is in no frame).
Trailing(j) ==
    /\ j \in 2..Len(file)
    /\ \A e \in j..Len(file) : ~IsEnd(file[e])

\* C11: in a validated file the lines after the last END are never parsed:
\* no atom comes from them, a fatal error only comes from a line of an
\* END-terminated buffer, and whether read_pdb returns and how many frames it
\* returns are decided by the lines of the END-terminated buffers alone.
C11_TrailingDropped ==
    vres = "True" =>
        /\ \A a \in DOMAIN Atom : InBuffer(Atom[a].src)
        /\ pc = "Frame" => (i < Len(file) /\ IsEnd(file[i + 1]))
        /\ (pc = "exit" /\ ret = "none") =>
              /\ InBuffer(SrcLine(fi + 1))
              /\ ~GoodAtom(file[SrcLine(fi + 1)])
        /\ pc \in {"returned", "exit"} =>
              (ret = "True" <=> \A j \in 1..Len(file) : InBuffer(j) => GoodAtom(file[j]))
        /\ ret = "True" => Len(frames) = EndCount(2)

\* read_pdb returned a frame with an atom from a file that ends in a
\* malformed line after the last END.
C11_Witness ==
    /\ ret = "True"
    /\ Len(frames) >= 1
    /\ Atom # <<>>
    /\ Trailing(Len(file))
    /\ ~GoodAtom(file[Len(file)])

\* The END lines after line 1, and the position of the n-th of them
\* (position 0 stands for line 1, where the first buffer starts).
SentinelLines == {j \in 2..Len(file) : IsEnd(file[j])}
EndPos(n) ==
    IF n = 0 THEN 1
    ELSE CHOOSE e \in SentinelLines : Cardinality({x \in SentinelLines : x <= e}) = n

\* The line numbers strictly between lo and hi, in file order.
Between(lo, hi) == [k \in 1..(hi - lo - 1) |-> lo + k]

\* The file lines the atoms of a frame were parsed from, in parse order.
FrameSrc(fr) == [k \in 1..Len(fr.atoms) |-> Atom[fr.atoms[k]].src]

\* C12: the frame at position j of frames (0-based) has num j, and the frame
\* under construction gets the next number.
C12_FramesNumbered ==
    /\ \A j \in 1..Len(frames) : frames[j].num = j - 1
    /\ pc = "Frame" => f.num = Len(frames)

\* read_pdb returned three frames, the last one with an atom.
C12_Witness ==
    /\ ret = "True"
    /\ Len(frames) = 3
    /\ frames[3].atoms # <<>>

\* C13: the atoms of the j-th frame built come, one per line and in file
\* order, from exactly the lines strictly between the (j-1)-th and the j-th
\* END after line 1 (line 1 for j = 0); no line gives an atom to two frames.
C13_FrameLines ==
    /\ Len(frames) <= Cardinality(SentinelLines)
    /\ \A j \in 1..Len(frames) :
          FrameSrc(frames[j]) = Between(EndPos(j - 1), EndPos(j))
    /\ \A a, b \in DOMAIN Atom : Atom[a].src = Atom[b].src => a = b
    /\ \A j1, j2 \in 1..Len(frames) :
          \A k1 \in 1..Len(frames[j1].atoms) : \A k2 \in 1..Len(frames[j2].atoms) :
              frames[j1].atoms[k1] = frames[j2].atoms[k2] => (j1 = j2 /\ k1 = k2)
    /\ pc = "Frame" => \A k \in 1..Len(atom_strs) : atom_strs[k] = file[SrcLine(k)]

\* read_pdb returned two frames that both hold an atom.
C13_Witness ==
    /\ ret = "True"
    /\ Len(frames) = 2
    /\ frames[1].atoms # <<>>
    /\ frames[2].atoms # <<>>

\* An assign step of the frame under construction, and one that finds no
\* molecule at position mol_id.
AssignStep == pc = "Frame" /\ fi < Len(atom_strs) /\ fi' = fi + 1
MissStep == AssignStep /\ Lookup(f.molecules, atom_strs[fi + 1].mol) = 0

\* After an assign step: the atom just parsed and its molecule.
NewAtom == f'.atoms[Len(f'.atoms)]
NewAtomMol == Atom'[NewAtom].molecule

\* The miss created a molecule with the record's id whose list is [atom].
MissCreates ==
    /\ f'.atoms = Append(f.atoms, NewAtom)
    /\ NewAtomMol \notin DOMAIN Mol
    /\ NewAtomMol \in DOMAIN Mol'
    /\ Mol'[NewAtomMol].id = atom_strs[fi + 1].mol
    /\ Lst'[Mol'[NewAtomMol].atoms] = <<NewAtom>>

\* C14 as stated: after a miss the new molecule, with id mol_id and atom list
\* [atom], is at position mol_id + 1 of the sequence.
C14_MissAtIdPlusOne ==
    [][MissStep =>
         /\ MissCreates
         /\ atom_strs[fi + 1].mol + 2 \in DOMAIN f'.molecules
         /\ f'.molecules[atom_strs[fi + 1].mol + 2] = NewAtomMol]_vars

\* C14 as amended: after a miss the new molecule, with id mol_id and atom list
\* [atom], is the last of the sequence when mol_id >= 0 (insert clamps
\* mol_id + 1 to the length) and the first when mol_id < 0; the sequence has
\* grown by one.
C14_MissAtEnd ==
    [][MissStep =>
         /\ MissCreates
         /\ Len(f'.molecules) = Len(f.molecules) + 1
         /\ f'.molecules[IF atom_strs[fi + 1].mol >= 0 THEN Len(f'.molecules) ELSE 1]
               = NewAtomMol]_vars

\* Two misses in one frame, the first for an id that skips position 1.
C14_Witness ==
    /\ pc = "Frame"
    /\ Len(f.molecules) = 3
    /\ Mol[f.molecules[2]].id = 2
    /\ Lst[Mol[f.molecules[3]].atoms] = <<f.atoms[Len(f.atoms)]>>

NonZero(x) == x # 0

\* The non-zero ids of the frame are 1, 2, ..., k in first-appearance order
\* and no id is negative (id 0 always reads position 0).
DenseIds(fr) ==
    LET r == FirstSeen(SelectSeq(FrameIds(fr), NonZero))
    IN  \A k \in 1..Len(r) : r[k] = k

\* Every atom of the frame lies in a molecule whose id is the id of its record.
IdsAgree(fr) ==
    \A k \in 1..Len(fr.atoms) :
        Mol[Atom[fr.atoms[k]].molecule].id = FrameIds(fr)[k]

AllIdsPositive == \A j \in 1..Len(file) : GoodAtom(file[j]) => file[j].mol >= 1

\* C16: when every atom record carries an id >= 1, the molecule at position 0
\* of every frame is the sentinel (id 0) and its atom list is empty, after
\* any assign steps and in every frame.
C16_SentinelEmpty ==
    AllIdsPositive =>
        \A fr \in AllFrames :
            /\ Mol[fr.molecules[1]].id = 0
            /\ Lst[Mol[fr.molecules[1]].atoms] = <<>>

\* Two frames built from ids >= 1 that do not start at 1, both with atoms.
C16_Witness ==
    /\ AllIdsPositive
    /\ Len(frames) = 2
    /\ FrameIds(frames[1]) = <<2>>
    /\ frames[2].atoms # <<>>

\* s is a subsequence of t: the elements of s, in the same relative order.
RECURSIVE IsSubseq(_, _)
IsSubseq(s, t) ==
    IF s = <<>> THEN TRUE
    ELSE IF t = <<>> THEN FALSE
    ELSE IF Head(s) = Head(t) THEN IsSubseq(Tail(s), Tail(t))
    ELSE IsSubseq(s, Tail(t))

\* C17: in every frame the atom list of each molecule, the sentinel included,
\* is a subsequence of the frame's atom sequence.
C17_ListsInParseOrder ==
    \A fr \in AllFrames : \A p \in 1..Len(fr.molecules) :
        IsSubseq(Lst[Mol[fr.molecules[p]].atoms], fr.atoms)

\* Within the frame under construction: every atom's molecule is in the
\* frame's sequence, lists the atom once, and no other molecule of the
\* sequence lists it.
PartitionOK ==
    \A k \in 1..Len(f.atoms) :
        LET a == f.atoms[k]
            m == Atom[a].molecule
        IN  /\ \E p \in 1..Len(f.molecules) : f.molecules[p] = m
            /\ \A p \in 1..Len(f.molecules) :
                  Count(Lst[Mol[f.molecules[p]].atoms], a)
                      = (IF f.molecules[p] = m THEN 1 ELSE 0)

\* C18: after every assign step the frame's molecules partition its atoms;
\* the step appends one new atom, adds it to the list of exactly one molecule
\* of the sequence, and grows the sequence by one on a miss and leaves it as
\* it is on a hit, removing no molecule.
C18_AssignPartitions ==
    [][AssignStep =>
         /\ PartitionOK'
         /\ Len(Atom') = Len(Atom) + 1
         /\ f'.atoms = Append(f.atoms, Len(Atom'))
         /\ Cardinality({p \in 1..Len(f'.molecules) :
                 Count(Lst'[Mol'[f'.molecules[p]].atoms], NewAtom) > 0}) = 1
         /\ IF MissStep
            THEN Len(f'.molecules) = Len(f.molecules) + 1
            ELSE f'.molecules = f.molecules
         /\ IsSubseq(f.molecules, f'.molecules)]_vars

\* A frame after three assign steps: two misses and a hit.
C18_Witness ==
    /\ pc = "Frame"
    /\ fi = 3
    /\ Len(f.atoms) = 3
    /\ Len(f.molecules) = 3
====
